---- MODULE Spec2Model ----
(***************************************************************************)
(* A state-machine model of ecuadorian_meal_bot.py: one run of main() is   *)
(* load_history -> clean_old_recipes -> should_send_today ->               *)
(* get_prioritized_models -> generate_meal_plan -> send_telegram_message   *)
(* -> history update and save_history.                                     *)
(*                                                                         *)
(* Strings the program compares or measures are modelled by what decides   *)
(* the comparison: ISO dates are sequences of character codes compared     *)
(* lexicographically as Python compares str; message texts are a length    *)
(* plus the set of offsets that hold a newline; model names are sequences  *)
(* of tokens.                                                              *)
(***************************************************************************)
EXTENDS Integers, Sequences, FiniteSets, TLC

VARIABLES
    file,        \* recipe_history.json: [kind, data]
    clock,       \* the wall clock, as a day ordinal (0 = Monday 2024-01-01)
    pc,          \* position of the process in main()
    history,     \* main's local `history`
    loaded,      \* what load_history returned in this run
    cleanNow,    \* the datetime.now() read by clean_old_recipes
    gateNow,     \* the datetime.now() read by is_workday (line 201)
    todayNow,    \* the datetime.now() read by should_send_today (line 206)
    gate,        \* the value should_send_today returned
    runs,        \* number of invocations of the process so far
    listing,     \* outcome of the GET on the model-listing endpoint
    candidates,  \* generate_meal_plan's candidate_models
    ci,          \* index of model_name in candidate_models (outer loop)
    vi,          \* index of specific_model_name in variations (inner loop)
    reqs,        \* the generation requests issued, in order
    meal_plan,   \* the text generate_meal_plan returned
    original,    \* the message main passed to send_telegram_message
    message,     \* send_telegram_message's `message` (what is left to split)
    parts,       \* send_telegram_message's `parts`
    si,          \* index of the part being sent (i + 1 of the enumerate loop)
    sends,       \* the sendMessage requests issued, in order
    last_result, \* send_telegram_message's `last_result`
    result,      \* main's `result`
    file0,       \* the history file as it was when this run started
    waited,      \* whether time has passed since the previous run ended
    runTicks     \* number of midnights that passed during this run

histVars == <<history, loaded, cleanNow, gateNow, todayNow, gate>>
genVars == <<listing, candidates, ci, vi, reqs, meal_plan>>
sendVars == <<original, message, parts, si, sends, last_result, result>>
envVars == <<clock, runs, waited, runTicks>>

vars == <<file, file0, pc, histVars, genVars, sendVars, envVars>>

----------------------------------------------------------------------------
(* Bounds of the model *)

MaxRuns == 2
MaxRecipes == 3
MaxModels == 4
MaxParts == 4
MaxRunTicks == 1

----------------------------------------------------------------------------
(* Calendar and ISO formatting (datetime, timedelta, isoformat) *)

RetentionDays == 14

WorkdayLimit == 5

\* The clock is [day, hour]: day 0 is Monday 2024-01-01, minutes and seconds
\* are 0.  It starts at noon on Friday 2024-01-26.
StartClocks == {[day |-> 25, hour |-> 12]}

Hours == {0, 12}

\* The gaps, in days, between one invocation of the process and the next.
WaitDays == {3, 14}

None == << >>

MonthLengths == <<31, 29, 31, 30, 31, 30, 31, 31, 30, 31, 30, 31>>

RECURSIVE MonthOfFrom(_, _)
MonthOfFrom(d, m) ==
    IF d < MonthLengths[m] THEN m ELSE MonthOfFrom(d - MonthLengths[m], m + 1)

RECURSIVE DayOfMonthFrom(_, _)
DayOfMonthFrom(d, m) ==
    IF d < MonthLengths[m] THEN d + 1 ELSE DayOfMonthFrom(d - MonthLengths[m], m + 1)

\* datetime.weekday(): Monday is 0, Sunday is 6.
weekday(now) == now.day % 7

Digit(n) == 48 + n

TwoDigits(n) == <<Digit(n \div 10), Digit(n % 10)>>

\* date.isoformat(): "YYYY-MM-DD" as character codes ('-' is 45).
IsoDate(d) ==
    <<Digit(2), Digit(0), Digit(2), Digit(4), 45>>
        \o TwoDigits(MonthOfFrom(d, 1)) \o <<45>> \o TwoDigits(DayOfMonthFrom(d, 1))

\* datetime.isoformat(): "YYYY-MM-DDTHH:MM:SS" ('T' is 84, ':' is 58).
IsoDateTime(now) ==
    IsoDate(now.day) \o <<84>> \o TwoDigits(now.hour)
        \o <<58>> \o TwoDigits(0) \o <<58>> \o TwoDigits(0)

\* Python's str `>`: lexicographic by code point, a proper prefix is smaller.
StrGreater(a, b) ==
    \E i \in 1..Len(a) :
        /\ \A j \in 1..(i - 1) : j <= Len(b) /\ a[j] = b[j]
        /\ (i > Len(b) \/ a[i] > b[i])

\* now - timedelta(days=n)
MinusDays(now, n) == [day |-> now.day - n, hour |-> now.hour]

----------------------------------------------------------------------------
(* History Store *)

EmptyHistory == [recipes |-> << >>, last_sent |-> None]

\* The file as open(HISTORY_FILE, 'w') leaves it, and as an interrupted
\* json.dump leaves it: empty or cut short, not a JSON document.
CorruptFile == [kind |-> "corrupt", data |-> EmptyHistory]

\* lines 15-20: the empty history when the file is absent, the document when
\* it parses; json.load raises when it does not, and nothing catches that.
load_history(f) ==
    IF f.kind = "absent" THEN [raises |-> FALSE, value |-> EmptyHistory]
    ELSE IF f.kind = "valid" THEN [raises |-> FALSE, value |-> f.data]
    ELSE [raises |-> TRUE, value |-> EmptyHistory]

clean_old_recipes_keep_cutoff(h, now) ==
    LET cutoff_date == IsoDate(MinusDays(now, RetentionDays).day)
    IN  [h EXCEPT !.recipes =
            SelectSeq(@, LAMBDA r : r.date = cutoff_date \/ StrGreater(r.date, cutoff_date))]

clean_old_recipes(h, now) ==
    LET cutoff_date == IsoDateTime(MinusDays(now, RetentionDays))
    IN  [h EXCEPT !.recipes = SelectSeq(@, LAMBDA r : StrGreater(r.date, cutoff_date))]

----------------------------------------------------------------------------
(* Send Gate *)

\* lines 200-201, with the clock read of line 201
is_workday(now) == weekday(now) < WorkdayLimit

\* lines 203-207: `now` is the clock read of line 201 (through is_workday),
\* `later` the clock read of line 206, made only on a workday
should_send_today(h, now, later) ==
    IF ~is_workday(now) THEN FALSE
    ELSE h.last_sent # IsoDate(later.day)

----------------------------------------------------------------------------
(* Candidate Resolver *)

\* Model names are sequences of tokens; `x in name` is token membership and
\* name.replace(x, '') drops the token x.
Contains(name, tok) == \E i \in 1..Len(name) : name[i] = tok

Without(name, tok) == SelectSeq(name, LAMBDA t : t # tok)

InSeq(x, s) == \E i \in 1..Len(s) : s[i] = x

fallback_models ==
    << <<"gemini-2.0-", "flash">>, <<"gemini-1.5-", "flash">>,
       <<"gemini-1.5-", "flash", "-001">>, <<"gemini-1.5-", "flash", "-002">>,
       <<"gemini-", "pro">> >>

\* line 50: the names of the entries that support generateContent
raw_models_of(models) ==
    LET supported == SelectSeq(models, LAMBDA m : "generateContent" \in m.methods)
    IN  [i \in 1..Len(supported) |-> Without(supported[i].name, "models/")]

\* lines 56-58: first pass, flash and not experimental
RECURSIVE FlashPass(_, _, _)
FlashPass(raw, i, sorted) ==
    IF i > Len(raw) THEN sorted
    ELSE IF Contains(raw[i], "flash") /\ ~Contains(raw[i], "exp") /\ ~InSeq(raw[i], sorted)
         THEN FlashPass(raw, i + 1, Append(sorted, raw[i]))
         ELSE FlashPass(raw, i + 1, sorted)

\* lines 60-62: second pass, the rest
RECURSIVE RestPass(_, _, _)
RestPass(raw, i, sorted) ==
    IF i > Len(raw) THEN sorted
    ELSE IF ~InSeq(raw[i], sorted)
         THEN RestPass(raw, i + 1, Append(sorted, raw[i]))
         ELSE RestPass(raw, i + 1, sorted)

sorted_models_in_listing_order(raw) == RestPass(raw, 1, << >>)

sorted_models_of(raw) == RestPass(raw, 1, FlashPass(raw, 1, << >>))

get_prioritized_models(resp) ==
    IF resp.kind = "exception" THEN fallback_models
    ELSE IF resp.status # 200 THEN fallback_models
    ELSE sorted_models_of(raw_models_of(resp.models))

----------------------------------------------------------------------------
(* Generation Orchestrator *)

variations_tried_twice(model_name) ==
    <<model_name, <<"models/">> \o model_name, <<"models/">> \o model_name>>

\* line 126: the name variations tried for one candidate.  The replace of
\* line 129 changes neither: the second variation exists only for a name
\* without "models/", so it never starts with "models/models/".
variations(model_name) ==
    IF ~Contains(model_name, "models/")
    THEN <<model_name, <<"models/">> \o model_name>>
    ELSE <<model_name>>

\* The outcomes of one POST to :generateContent.
GenOutcomes ==
    { [kind |-> "exception", status |-> 0, shape |-> FALSE],
      [kind |-> "response", status |-> 200, shape |-> TRUE],
      [kind |-> "response", status |-> 200, shape |-> FALSE],
      [kind |-> "response", status |-> 429, shape |-> FALSE],
      [kind |-> "response", status |-> 500, shape |-> FALSE] }

request_effect_ignoring_success(o) ==
    IF o.kind = "exception" THEN "continue"
    ELSE IF o.status = 429 THEN "break"
    ELSE "continue"

request_effect_retrying_quota(o) ==
    IF o.kind = "exception" THEN "continue"
    ELSE IF o.status = 200 /\ o.shape THEN "return"
    ELSE "continue"

\* lines 133-147: what one request's outcome makes the loops do
\*   "return"  line 140, "break" line 144, "continue" otherwise
request_effect(o) ==
    IF o.kind = "exception" THEN "continue"
    ELSE IF o.status = 200 /\ o.shape THEN "return"
    ELSE IF o.status = 429 THEN "break"
    ELSE "continue"

----------------------------------------------------------------------------
(* Message texts: [len, nl], the length and the offsets holding '\n' *)

MAX_LENGTH == 4000

MealLines == 4

Text(n, newlines) == [len |-> n, nl |-> newlines]

Concat(a, b) == [len |-> a.len + b.len, nl |-> a.nl \cup {p + a.len : p \in b.nl}]

\* message[:k]
Prefix(t, k) == [len |-> k, nl |-> {p \in t.nl : p < k}]

SuffixAfterNewline(t, k) ==
    [len |-> t.len - (k + 1), nl |-> {p - (k + 1) : p \in {q \in t.nl : q >= k + 1}}]

\* message[k:]
Suffix(t, k) == [len |-> t.len - k, nl |-> {p - k : p \in {q \in t.nl : q >= k}}]

\* message.rfind('\n', 0, end)
rfind_newline(t, end) ==
    LET found == {p \in t.nl : p < end}
    IN  IF found = {} THEN -1 ELSE CHOOSE p \in found : \A q \in found : q <= p

\* text.split('\n'), each piece given by its length
RECURSIVE SplitFrom(_, _)
SplitFrom(t, start) ==
    LET found == {p \in t.nl : p >= start}
    IN  IF found = {} THEN <<t.len - start>>
        ELSE LET p == CHOOSE x \in found : \A q \in found : x <= q
             IN  <<p - start>> \o SplitFrom(t, p + 1)

\* meal_plan.split('\n')[:4]
first_meals(t) ==
    LET pieces == SplitFrom(t, 0)
    IN  SubSeq(pieces, 1, IF Len(pieces) < MealLines THEN Len(pieces) ELSE MealLines)

DayNameLen == <<6, 7, 9, 8, 6, 8, 6>>

MonthNameLen == <<7, 8, 5, 5, 3, 4, 4, 6, 9, 7, 8, 8>>

\* now.strftime("%A, %B %d, %Y"), by its length
today_str_len(now) ==
    DayNameLen[weekday(now) + 1] + 2 + MonthNameLen[MonthOfFrom(now.day, 1)] + 1 + 2 + 2 + 4

\* line 225: the flag, the bold title (45 characters), "\n", the calendar
\* sign and a space, the date, "\n\n", then the meal plan
compose_message(plan, now) ==
    LET title == 45
        dated == title + 3 + today_str_len(now)
    IN  Concat(Text(dated + 2, {title, dated, dated + 1}), plan)

\* lines 173-175: where the next cut falls
split_index_of(t) ==
    IF rfind_newline(t, MAX_LENGTH) = -1 THEN MAX_LENGTH ELSE rfind_newline(t, MAX_LENGTH)

\* The outcomes of one POST to sendMessage followed by response.json().
SendOutcomes ==
    { [kind |-> "exception", ok |-> FALSE],
      [kind |-> "dict", ok |-> TRUE],
      [kind |-> "dict", ok |-> FALSE],
      [kind |-> "list", ok |-> FALSE] }

NoResult == [kind |-> "None", ok |-> FALSE]

\* line 230: "yes", "no", or "raise" (a list has no .get)
main_accepts(r) ==
    IF r.kind = "None" THEN "no"
    ELSE IF r.kind = "list" THEN "raise"
    ELSE IF r.ok THEN "yes" ELSE "no"

record_today_without_last_sent(h, plan, now, later) ==
    [recipes |-> Append(h.recipes, [date |-> IsoDate(now.day),
                                    meals |-> first_meals(plan)]),
     last_sent |-> h.last_sent]

\* lines 232-236: the record of today is appended, dated by the clock read of
\* line 233, and last_sent is set from the clock read of line 236
record_today(h, plan, now, later) ==
    [recipes |-> Append(h.recipes, [date |-> IsoDate(now.day),
                                    meals |-> first_meals(plan)]),
     last_sent |-> IsoDate(later.day)]

text_marker_after_first(i, n) ==
    IF n = 1 \/ i = 1 THEN << >> ELSE <<i, n>>

\* line 183: the part marker "[i/N]" put in front of part i of n, as the pair
\* of its numbers; no marker when there is one part only
text_marker(i, n) ==
    IF n = 1 THEN << >> ELSE <<i, n>>

next_part_after_retry(i, o) ==
    IF o.kind = "exception" THEN i ELSE i + 1

\* lines 181 and 194-196: the loop goes on to the next part whatever the send
\* of part i did
next_part(i, o) == i + 1

\* The meal plans the provider returns in the runs of main.  They open with
\* the same four lines (the answer format of lines 105-107); one fits a
\* single message, the other is split into three chunks.
Payloads ==
    { Text(120, {20, 50, 80, 100, 110}),
      Text(9000, {20, 50, 80, 100, 3000, 6500, 8000}) }

\* The answers of the model-listing endpoint in the runs of main.
Model(n, ms) == [name |-> n, methods |-> ms]

Listings ==
    { [kind |-> "exception", status |-> 0, models |-> << >>],
      [kind |-> "response", status |-> 500, models |-> << >>],
      [kind |-> "response", status |-> 200, models |-> << >>],
      [kind |-> "response", status |-> 200, models |->
          << Model(<<"models/", "gemini-", "pro">>, {"generateContent"}),
             Model(<<"models/", "gemini-2.0-", "flash">>, {"generateContent"}) >>] }

----------------------------------------------------------------------------
(* main() *)

EmptyText == Text(0, {})

NoListing == [kind |-> "none", status |-> 0, models |-> << >>]

NoRead == [day |-> 0, hour |-> 0]

\* The locals of a process that has not run yet, by the function owning them.
HistLocals ==
    /\ history = EmptyHistory
    /\ loaded = EmptyHistory
    /\ cleanNow = NoRead

GateLocals ==
    /\ gateNow = NoRead
    /\ todayNow = NoRead
    /\ gate = FALSE

GenLocals ==
    /\ candidates = << >>
    /\ ci = 1
    /\ vi = 1
    /\ reqs = << >>
    /\ meal_plan = EmptyText

SendLocals ==
    /\ parts = << >>
    /\ si = 1
    /\ sends = << >>
    /\ last_result = NoResult
    /\ result = NoResult

RunLocals ==
    /\ HistLocals
    /\ GateLocals
    /\ listing = NoListing
    /\ GenLocals
    /\ original = EmptyText
    /\ message = EmptyText
    /\ SendLocals
    /\ runTicks = 0

Init ==
    /\ file = [kind |-> "absent", data |-> EmptyHistory]
    /\ file0 = file
    /\ clock \in StartClocks
    /\ pc = "idle"
    /\ runs = 0
    /\ waited = TRUE
    /\ RunLocals

\* Between two invocations, days pass.
Wait ==
    /\ pc = "idle"
    /\ ~waited
    /\ \E k \in WaitDays : clock' = [clock EXCEPT !.day = @ + k]
    /\ waited' = TRUE
    /\ UNCHANGED <<file, file0, pc, histVars, genVars, sendVars, runs, runTicks>>

Midnight(t) == [day |-> t.day + 1, hour |-> 0]

\* What a call of datetime.now() can return when the clock stood at t and k
\* midnights have passed in this run: t, or the midnight after it.  Every
\* call is a read of its own; time passes between any two of them.
ClockReads(t, k) == {t} \cup (IF k < MaxRunTicks THEN {Midnight(t)} ELSE {})

Ticks(k, t, u) == IF u = t THEN k ELSE k + 1

\* While main runs (a request in flight, a sleep, or between two
\* statements), midnight passes.
Tick ==
    /\ pc \notin {"idle", "skipped", "sent", "failed", "aborted"}
    /\ runTicks < MaxRunTicks
    /\ runTicks' = runTicks + 1
    /\ clock' = Midnight(clock)
    /\ UNCHANGED <<file, file0, pc, histVars, genVars, sendVars, runs, waited>>

\* line 212: history = load_history()
Load ==
    /\ pc = "idle"
    /\ runs < MaxRuns
    /\ runs' = runs + 1
    /\ waited' = FALSE
    /\ file0' = file
    /\ history' = load_history(file).value
    /\ loaded' = load_history(file).value
    /\ pc' = IF load_history(file).raises THEN "aborted" ELSE "loaded"
    /\ UNCHANGED <<file, clock, cleanNow, gateNow, todayNow, gate, genVars, sendVars, runTicks>>

\* line 213: history = clean_old_recipes(history)
Clean ==
    /\ pc = "loaded"
    /\ \E now \in ClockReads(clock, runTicks) :
          /\ cleanNow' = now
          /\ history' = clean_old_recipes(history, now)
          /\ clock' = now
          /\ runTicks' = Ticks(runTicks, clock, now)
    /\ pc' = "cleaned"
    /\ UNCHANGED <<file, file0, loaded, gateNow, todayNow, gate, genVars, sendVars,
                   runs, waited>>

\* lines 215-217: the send gate and the early return
Gate ==
    /\ pc = "cleaned"
    /\ \E now \in ClockReads(clock, runTicks) :
        \E later \in (IF is_workday(now)
                      THEN ClockReads(now, Ticks(runTicks, clock, now))
                      ELSE {now}) :
          /\ gateNow' = now
          /\ todayNow' = IF is_workday(now) THEN later ELSE NoRead
          /\ gate' = should_send_today(history, now, later)
          /\ pc' = IF should_send_today(history, now, later) THEN "query" ELSE "skipped"
          /\ clock' = later
          /\ runTicks' = Ticks(Ticks(runTicks, clock, now), now, later)
    /\ UNCHANGED <<file, file0, history, loaded, cleanNow, genVars, sendVars,
                   runs, waited>>

\* line 44: the GET on the model-listing endpoint.  clean_old_recipes and
\* should_send_today have returned: the clock values they read are gone.
QueryModels ==
    /\ pc = "query"
    /\ \E resp \in Listings : listing' = resp
    /\ pc' = "rank"
    /\ cleanNow' = NoRead
    /\ gateNow' = NoRead
    /\ todayNow' = NoRead
    /\ UNCHANGED <<file, file0, history, loaded, gate, candidates, ci, vi, reqs,
                   meal_plan, sendVars, envVars>>

\* lines 45-69 and 73: candidate_models = get_prioritized_models()
Rank ==
    /\ pc = "rank"
    /\ candidates' = get_prioritized_models(listing)
    /\ ci' = 1
    /\ vi' = 1
    /\ pc' = "generate"
    /\ UNCHANGED <<file, file0, histVars, listing, reqs, meal_plan, sendVars, envVars>>

\* lines 128-147: one POST to :generateContent and what follows from it.
\* get_prioritized_models has returned: the response it read is gone.
GenRequest ==
    /\ pc = "generate"
    /\ ci <= Len(candidates)
    /\ \E o \in GenOutcomes :
      \E p \in (IF o.kind = "response" /\ o.status = 200 /\ o.shape
                THEN Payloads ELSE {EmptyText}) :
        /\ reqs' = Append(reqs, [cand |-> ci, var |-> vi,
                                 name |-> variations(candidates[ci])[vi],
                                 ok |-> o.kind = "response" /\ o.status = 200 /\ o.shape,
                                 quota |-> o.kind = "response" /\ o.status = 429,
                                 text |-> p])
        /\ IF request_effect(o) = "return"
           THEN /\ meal_plan' = p
                /\ pc' = "compose"
                /\ UNCHANGED <<ci, vi>>
           ELSE /\ IF request_effect(o) = "continue"
                      /\ vi < Len(variations(candidates[ci]))
                   THEN ci' = ci /\ vi' = vi + 1
                   ELSE ci' = ci + 1 /\ vi' = 1
                /\ UNCHANGED <<meal_plan, pc>>
    /\ listing' = NoListing
    /\ UNCHANGED <<file, file0, histVars, candidates, sendVars, envVars>>

\* line 150 and lines 241-242: every candidate failed; generate_meal_plan
\* raises and its locals are gone
GenExhausted ==
    /\ pc = "generate"
    /\ ci > Len(candidates)
    /\ pc' = "failed"
    /\ listing' = NoListing
    /\ candidates' = << >>
    /\ ci' = 1
    /\ vi' = 1
    /\ reqs' = << >>
    /\ UNCHANGED <<file, file0, histVars, meal_plan, sendVars, envVars>>

\* lines 224-228 and 158: generate_meal_plan has returned and its locals are
\* gone; the message is built and handed to the dispatcher
Compose ==
    /\ pc = "compose"
    /\ \E now \in ClockReads(clock, runTicks) :
          /\ original' = compose_message(meal_plan, now)
          /\ message' = compose_message(meal_plan, now)
          /\ pc' = IF compose_message(meal_plan, now).len <= MAX_LENGTH
                   THEN "send_single" ELSE "chunking"
          /\ clock' = now
          /\ runTicks' = Ticks(runTicks, clock, now)
    /\ listing' = NoListing
    /\ candidates' = << >>
    /\ ci' = 1
    /\ vi' = 1
    /\ reqs' = << >>
    /\ UNCHANGED <<file, file0, histVars, meal_plan, parts, si, sends,
                   last_result, result, runs, waited>>

\* lines 159-164: a short message goes out in one request
SendSingle ==
    /\ pc = "send_single"
    /\ \E o \in SendOutcomes :
        /\ sends' = Append(sends, [part |-> 1, marker |-> << >>, html |-> TRUE, outcome |-> o])
        /\ IF o.kind = "exception"
           THEN pc' = "failed" /\ UNCHANGED result
           ELSE pc' = "decide" /\ result' = o
    /\ UNCHANGED <<file, file0, histVars, genVars, original, message, parts, si,
                   last_result, envVars>>

\* lines 168-178: one iteration of the splitting loop
ChunkStep ==
    /\ pc = "chunking"
    /\ Len(parts) < MaxParts
    /\ IF message.len = 0
       THEN pc' = "sending" /\ UNCHANGED <<message, parts>>
       ELSE IF message.len <= MAX_LENGTH
       THEN /\ parts' = Append(parts, message)
            /\ pc' = "sending"
            /\ UNCHANGED message
       ELSE /\ parts' = Append(parts, Prefix(message, split_index_of(message)))
            /\ message' = Suffix(message, split_index_of(message))
            /\ UNCHANGED pc
    /\ UNCHANGED <<file, file0, histVars, genVars, original, si, sends,
                   last_result, result, envVars>>

\* lines 181-198: one part is sent; after the last one last_result is returned
SendPart ==
    /\ pc = "sending"
    /\ si <= Len(parts)
    /\ \E o \in SendOutcomes :
        /\ sends' = Append(sends, [part |-> si, marker |-> text_marker(si, Len(parts)),
                                   html |-> FALSE, outcome |-> o])
        /\ last_result' = IF o.kind = "exception" THEN last_result ELSE o
        /\ si' = next_part(si, o)
        /\ IF next_part(si, o) > Len(parts)
           THEN /\ result' = (IF o.kind = "exception" THEN last_result ELSE o)
                /\ pc' = "decide"
           ELSE UNCHANGED <<result, pc>>
    /\ UNCHANGED <<file, file0, histVars, genVars, original, message, parts, envVars>>

\* line 230 and lines 238-242
Decide ==
    /\ pc = "decide"
    /\ pc' = IF main_accepts(result) = "yes" THEN "record" ELSE "failed"
    /\ UNCHANGED <<file, file0, histVars, genVars, sendVars, envVars>>

\* lines 232-236: the record of today, dated by the clock read of line 233,
\* and last_sent, from the clock read of line 236
Record ==
    /\ pc = "record"
    /\ \E now \in ClockReads(clock, runTicks) :
        \E later \in ClockReads(now, Ticks(runTicks, clock, now)) :
          /\ history' = record_today(history, meal_plan, now, later)
          /\ clock' = later
          /\ runTicks' = Ticks(Ticks(runTicks, clock, now), now, later)
    /\ pc' = "save"
    /\ UNCHANGED <<file, file0, loaded, cleanNow, gateNow, todayNow, gate, genVars,
                   sendVars, runs, waited>>

\* lines 237 and 24: save_history opens the file for writing, which empties it
Truncate ==
    /\ pc = "save"
    /\ file' = CorruptFile
    /\ pc' = "dump"
    /\ UNCHANGED <<file0, histVars, genVars, sendVars, envVars>>

\* line 25: json.dump writes the history and the file is closed
Save ==
    /\ pc = "dump"
    /\ file' = [kind |-> "valid", data |-> history]
    /\ pc' = "sent"
    /\ UNCHANGED <<file0, histVars, genVars, sendVars, envVars>>

\* The process is gone and so are its locals; the file stays as it is.
ProcessEnds ==
    /\ pc' = "idle"
    /\ file0' = file
    /\ history' = EmptyHistory
    /\ loaded' = EmptyHistory
    /\ cleanNow' = NoRead
    /\ gateNow' = NoRead
    /\ todayNow' = NoRead
    /\ gate' = FALSE
    /\ listing' = NoListing
    /\ candidates' = << >>
    /\ ci' = 1
    /\ vi' = 1
    /\ reqs' = << >>
    /\ meal_plan' = EmptyText
    /\ original' = EmptyText
    /\ message' = EmptyText
    /\ parts' = << >>
    /\ si' = 1
    /\ sends' = << >>
    /\ last_result' = NoResult
    /\ result' = NoResult
    /\ runTicks' = 0
    /\ UNCHANGED <<file, clock, runs, waited>>

\* main returns (lines 216, 237-242), or the traceback of load_history's
\* exception ends the process (line 212).
Exit ==
    /\ pc \in {"skipped", "sent", "failed", "aborted"}
    /\ ProcessEnds

\* The process is killed, or the machine goes down, while main is running.
Crash ==
    /\ pc \notin {"idle", "skipped", "sent", "failed", "aborted"}
    /\ ProcessEnds

Next ==
    \/ Wait \/ Tick \/ Load \/ Clean \/ Gate \/ QueryModels \/ Rank
    \/ GenRequest \/ GenExhausted \/ Compose \/ SendSingle \/ ChunkStep
    \/ SendPart \/ Decide \/ Record \/ Truncate \/ Save \/ Exit \/ Crash

Spec == Init /\ [][Next]_vars

----------------------------------------------------------------------------
(* The Candidate Resolver on its own: every answer of the listing endpoint *)

Descriptors ==
    { Model(<<"models/", "gemini-", "pro">>, {"generateContent"}),
      Model(<<"models/", "gemini-1.5-", "flash">>, {"generateContent", "countTokens"}),
      Model(<<"models/", "gemini-2.0-", "flash">>, {"generateContent"}),
      Model(<<"models/", "other-x">>, {"generateContent"}),
      Model(<<"models/", "gemini-2.0-", "flash", "-", "exp">>, {"generateContent"}),
      Model(<<"gemini-1.5-", "flash">>, {"generateContent"}),
      Model(<<"models/", "embedding-001">>, {"embedContent"}) }

SeqsUpTo(S, n) == UNION {[1..k -> S] : k \in 0..n}

AllListings ==
    { [kind |-> "exception", status |-> 0, models |-> << >>],
      [kind |-> "response", status |-> 500, models |-> << >>],
      [kind |-> "response", status |-> 404, models |-> << >>] }
    \cup { [kind |-> "response", status |-> 200, models |-> ms] :
              ms \in SeqsUpTo(Descriptors, MaxModels) }

InitResolve ==
    /\ file = [kind |-> "absent", data |-> EmptyHistory]
    /\ file0 = file
    /\ clock \in StartClocks
    /\ runs = 1
    /\ waited = FALSE
    /\ runTicks = 0
    /\ HistLocals
    /\ gateNow = NoRead
    /\ todayNow = NoRead
    /\ gate = TRUE
    /\ listing \in AllListings
    /\ GenLocals
    /\ original = EmptyText
    /\ message = EmptyText
    /\ SendLocals
    /\ pc = "rank"

SpecResolve == InitResolve /\ [][Rank]_vars

----------------------------------------------------------------------------
(* The splitting loop on its own: texts longer than MAX_LENGTH *)

ChunkLengths == {4001, 8000, 8001, 9000, 12001}

NewlineOffsets == {0, 1, 3999, 4000, 4001, 7999, 8000, 8500}

ChunkTexts ==
    { Text(n, {p \in ps : p < n}) : n \in ChunkLengths, ps \in SUBSET NewlineOffsets }

InitChunk ==
    /\ file = [kind |-> "absent", data |-> EmptyHistory]
    /\ file0 = file
    /\ clock \in StartClocks
    /\ runs = 1
    /\ waited = FALSE
    /\ runTicks = 0
    /\ HistLocals
    /\ gateNow = NoRead
    /\ todayNow = NoRead
    /\ gate = TRUE
    /\ listing = NoListing
    /\ GenLocals
    /\ original \in ChunkTexts
    /\ message = original
    /\ SendLocals
    /\ pc = "chunking"

SpecChunk == InitChunk /\ [][ChunkStep]_vars

RECURSIVE ConcatAll(_)
ConcatAll(ps) == IF ps = << >> THEN EmptyText ELSE Concat(Head(ps), ConcatAll(Tail(ps)))

RECURSIVE TotalLen(_)
TotalLen(ps) == IF ps = << >> THEN 0 ELSE Head(ps).len + TotalLen(Tail(ps))

\* The offsets of `original` at which part i starts.
StartOf(i) == TotalLen(SubSeq(parts, 1, i - 1))

NewlinesInReach(i) ==
    {p \in original.nl : StartOf(i) <= p /\ p < StartOf(i) + MAX_LENGTH}

\* The parts that were cut off a longer remainder (all but a final remainder).
CutParts == IF pc = "sending" THEN 1..(Len(parts) - 1) ELSE 1..Len(parts)

\* C8: the chunks are at most MAX_LENGTH long; each cut falls at the last
\* newline among the first MAX_LENGTH characters of what remained, or at
\* MAX_LENGTH when there is none; the chunks, in order, followed by what is
\* still to split, are the original text.
C8_ChunksPartitionText ==
    pc \in {"chunking", "sending"} =>
        /\ \A i \in 1..Len(parts) : parts[i].len <= MAX_LENGTH
        /\ \A i \in CutParts :
              IF NewlinesInReach(i) = {}
              THEN parts[i].len = MAX_LENGTH
              ELSE \E p \in NewlinesInReach(i) :
                      /\ \A q \in NewlinesInReach(i) : q <= p
                      /\ parts[i].len = p - StartOf(i)
        /\ pc = "chunking" => Concat(ConcatAll(parts), message) = original
        /\ pc = "sending" => ConcatAll(parts) = original

C8_Witness ==
    /\ pc = "sending"
    /\ original = Text(9000, {7999})
    /\ Len(parts) = 3
    /\ parts[1].len = 4000
    /\ parts[2].len = 3999
    /\ parts[3].len = 1001

----------------------------------------------------------------------------
(* clean_old_recipes on its own: histories around the retention cutoff *)

\* Friday 2024-01-26, Friday 2024-02-09 and Friday 2024-03-01, at midnight
\* and at noon.
PruneClocks == {[day |-> d, hour |-> h] : d \in {25, 39, 60}, h \in Hours}

\* How far before the clock the dates of the records reach.
PruneWindow == 16

RecordOn(d) == [date |-> IsoDate(d), meals |-> <<1>>]

\* Histories as the runs leave them: dates ascending, one record a day.
AscendingDays(now) ==
    { ds \in SeqsUpTo((now.day - PruneWindow)..now.day, MaxRecipes) :
        \A i \in 1..(Len(ds) - 1) : ds[i] < ds[i + 1] }

HistoryOn(ds) ==
    [recipes |-> [i \in 1..Len(ds) |-> RecordOn(ds[i])],
     last_sent |-> IF ds = << >> THEN None ELSE IsoDate(ds[Len(ds)])]

InitPrune ==
    /\ clock \in PruneClocks
    /\ \E ds \in AscendingDays(clock) :
          /\ file = [kind |-> "valid", data |-> HistoryOn(ds)]
          /\ history = HistoryOn(ds)
          /\ loaded = HistoryOn(ds)
    /\ file0 = file
    /\ cleanNow = NoRead
    /\ runs = 1
    /\ waited = FALSE
    /\ runTicks = 0
    /\ GateLocals
    /\ listing = NoListing
    /\ GenLocals
    /\ original = EmptyText
    /\ message = EmptyText
    /\ SendLocals
    /\ pc = "loaded"

\* clean_old_recipes applied to its own result: the second call reads the
\* clock itself at line 29; cleanNow stays the read of the first call and
\* clock becomes the read of the second
CleanAgain ==
    /\ pc = "cleaned"
    /\ \E now \in ClockReads(clock, runTicks) :
          /\ history' = clean_old_recipes(history, now)
          /\ clock' = now
          /\ runTicks' = Ticks(runTicks, clock, now)
    /\ pc' = "recleaned"
    /\ UNCHANGED <<file, file0, loaded, cleanNow, gateNow, todayNow, gate, genVars,
                   sendVars, runs, waited>>

SpecPrune == InitPrune /\ [][Clean \/ CleanAgain]_vars

\* The day whose ISO date is s.
DayOfIso(s) == CHOOSE d \in 0..365 : IsoDate(d) = s

\* C9 as stated: pruning keeps exactly the records dated on or after the
\* day 14 days before the clock read (the record of that very day is kept),
\* in their order, and pruning again with the same now changes nothing.
C9_KeepsCutoffDay ==
    (pc = "cleaned" \/ (pc = "recleaned" /\ clock = cleanNow)) =>
        history.recipes =
            SelectSeq(loaded.recipes,
                      LAMBDA r : DayOfIso(r.date) >= cleanNow.day - RetentionDays)

\* C9 amended: pruning keeps exactly the records dated after the day 14 days
\* before the clock read (the record of that very day is removed), in their
\* order, and leaves last_sent alone; pruning again with the same now
\* changes nothing, and pruning again after a later clock read leaves the
\* records dated after the day 14 days before that later read.
C9_KeepsLaterDays ==
    /\ pc = "cleaned" =>
          /\ history.recipes =
                SelectSeq(loaded.recipes,
                          LAMBDA r : DayOfIso(r.date) > cleanNow.day - RetentionDays)
          /\ history.last_sent = loaded.last_sent
    /\ pc = "recleaned" =>
          /\ history.recipes =
                SelectSeq(loaded.recipes,
                          LAMBDA r : DayOfIso(r.date) > clock.day - RetentionDays)
          /\ history.last_sent = loaded.last_sent
          /\ clock = cleanNow =>
                history.recipes =
                    SelectSeq(loaded.recipes,
                              LAMBDA r : DayOfIso(r.date) > cleanNow.day - RetentionDays)

C9_Witness ==
    /\ pc = "recleaned"
    /\ cleanNow = [day |-> 39, hour |-> 0]
    /\ clock = cleanNow
    /\ loaded.recipes = <<RecordOn(24), RecordOn(25), RecordOn(26)>>
    /\ history.recipes = <<RecordOn(26)>>

----------------------------------------------------------------------------
(* Claims about the runs of main, checked under Spec *)

SendOk(s) == s.outcome.kind = "dict" /\ s.outcome.ok

Accepted == pc \in {"record", "save", "dump", "sent"}

\* C2: a message split into two or more chunks counts as sent (main goes on
\* to update the history) only if every chunk was sent and every send
\* reported ok:true.
C2_SuccessNeedsEveryChunk ==
    (Accepted /\ Len(parts) >= 2) =>
        /\ Len(sends) = Len(parts)
        /\ \A i \in 1..Len(sends) : SendOk(sends[i])

\* C3: a run in which generation failed on every candidate, or in which some
\* send failed, ends with the history file as it was when the run started.
C3_FailureKeepsFile ==
    (pc \in {"sent", "failed"}
        /\ (sends = << >> \/ \E i \in 1..Len(sends) : ~SendOk(sends[i])))
    => file = file0

NoHttpCall == listing = NoListing /\ reqs = << >> /\ sends = << >>

Weekend(now) == now.day % 7 \in {5, 6}

GateDecided == pc \in {"skipped", "query"}

\* The clock reads the gate made: line 201's and, on a workday, line 206's.
GateReads == {gateNow} \cup (IF todayNow = NoRead THEN {} ELSE {todayNow})

\* C4: a run that finds last_sent equal to today, or that runs on a Saturday
\* or Sunday (whichever clock read of the gate is taken for today), ends
\* skipped, having issued no HTTP request and left the history file alone;
\* no run issues a request before its gate has passed.
C4_SkippedRunDoesNothing ==
    /\ (GateDecided
          /\ \A now \in GateReads :
                Weekend(now) \/ loaded.last_sent = IsoDate(now.day))
        => (pc = "skipped" /\ NoHttpCall /\ file = file0)
    /\ (pc \in {"loaded", "cleaned", "skipped"}) => (NoHttpCall /\ file = file0)

\* C5: the generation requests go out in ranked order, candidate by
\* candidate and the bare name before the prefixed one; the first request
\* that succeeds is the last request issued, and its text is what
\* generate_meal_plan returns.
C5_FirstSuccessWins ==
    pc \in {"generate", "compose"} =>
        /\ \A i \in 1..Len(reqs) :
              /\ i = 1 => (reqs[i].cand = 1 /\ reqs[i].var = 1)
              /\ i > 1 => \/ (reqs[i].cand = reqs[i - 1].cand /\ reqs[i].var = reqs[i - 1].var + 1)
                          \/ (reqs[i].cand = reqs[i - 1].cand + 1 /\ reqs[i].var = 1)
              /\ reqs[i].ok => (i = Len(reqs) /\ pc = "compose")
        /\ pc = "compose" =>
              /\ Len(reqs) >= 1
              /\ reqs[Len(reqs)].ok
              /\ meal_plan = reqs[Len(reqs)].text

C5_Witness ==
    /\ pc = "compose"
    /\ Len(candidates) >= 3
    /\ Len(reqs) = 3
    /\ reqs[3].cand = 2 /\ reqs[3].var = 1 /\ reqs[3].ok

\* C6: after a request answered 429 no further request goes to that
\* candidate: the next request, if any, is the first one of the next
\* candidate.
C6_QuotaFailsFast ==
    pc \in {"generate", "compose"} =>
        \A i \in 1..Len(reqs) :
            reqs[i].quota =>
                /\ \A j \in 1..Len(reqs) : j > i => reqs[j].cand # reqs[i].cand
                /\ i < Len(reqs) => (reqs[i + 1].cand = reqs[i].cand + 1 /\ reqs[i + 1].var = 1)
                /\ i = Len(reqs) => (ci = reqs[i].cand + 1 /\ vi = 1)

C6_Witness ==
    /\ pc = "generate"
    /\ Len(reqs) = 2
    /\ reqs[1].quota /\ reqs[1].cand = 1 /\ reqs[1].var = 1
    /\ reqs[2].cand = 2

\* C7: should_send_today is a predicate of now: there is a clock read of the
\* gate, now, such that the value returned is true exactly when the day of
\* now is Monday to Friday and last_sent differs from that day's ISO date;
\* the history stays as clean_old_recipes returned it.
C7_GatePredicate ==
    GateDecided =>
        /\ \E now \in GateReads :
              gate = (now.day % 7 \in {0, 1, 2, 3, 4}
                        /\ loaded.last_sent # IsoDate(now.day))
        /\ (pc \in {"skipped", "query"} =>
               /\ history.last_sent = loaded.last_sent
               /\ history.recipes = clean_old_recipes(loaded, cleanNow).recipes)

\* C1: get_prioritized_models never returns an empty list, whatever the
\* listing endpoint answered, and an empty filtered set yields the static
\* fallback list.
C1_NeverEmpty ==
    pc = "generate" =>
        /\ Len(candidates) >= 1
        /\ (listing.kind = "response" /\ listing.status = 200
               /\ (\A i \in 1..Len(listing.models) :
                      "generateContent" \notin listing.models[i].methods)
             => candidates = fallback_models)

Priority(m) == Contains(m, "flash") /\ ~Contains(m, "exp")

FirstIndex(m, s) == CHOOSE i \in 1..Len(s) : s[i] = m /\ \A j \in 1..(i - 1) : s[j] # m

Filtered == raw_models_of(listing.models)

\* C10: on a successful listing the candidates are a stable partition of the
\* filtered names: each filtered name once and nothing else, the names with
\* "flash" and without "exp" first, and inside each group the order in which
\* the names first occur in the listing.
C10_StablePartition ==
    (pc = "generate" /\ listing.kind = "response" /\ listing.status = 200) =>
        /\ \A i \in 1..Len(Filtered) : InSeq(Filtered[i], candidates)
        /\ \A k \in 1..Len(candidates) : InSeq(candidates[k], Filtered)
        /\ \A k, l \in 1..Len(candidates) : k # l => candidates[k] # candidates[l]
        /\ \A k, l \in 1..Len(candidates) :
              k < l =>
                /\ (Priority(candidates[l]) => Priority(candidates[k]))
                /\ (Priority(candidates[k]) = Priority(candidates[l])
                      => FirstIndex(candidates[k], Filtered)
                           < FirstIndex(candidates[l], Filtered))

C10_Witness ==
    /\ pc = "generate"
    /\ listing.kind = "response" /\ listing.status = 200
    /\ Filtered = << <<"gemini-", "pro">>, <<"gemini-1.5-", "flash">>,
                     <<"gemini-2.0-", "flash">>, <<"other-x">> >>
    /\ candidates = << <<"gemini-1.5-", "flash">>, <<"gemini-2.0-", "flash">>,
                       <<"gemini-", "pro">>, <<"other-x">> >>


\* The days the clock has shown in this run.
DaysOfRun == (clock.day - runTicks) .. clock.day

\* C11: a run that starts from the empty history and gets through its sends
\* with every one of them answered ok ends with the file holding exactly one
\* record, dated today and carrying the first lines of the plan, and
\* last_sent equal to today, for a day of the run taken as today; such a run
\* is never given up as failed.
C11_FirstRunRecordsToday ==
    /\ (pc = "sent" /\ loaded = EmptyHistory) =>
          /\ file.kind = "valid"
          /\ Len(file.data.recipes) = 1
          /\ file.data.recipes[1].meals = first_meals(meal_plan)
          /\ \E d \in DaysOfRun :
                /\ file.data.recipes[1].date = IsoDate(d)
                /\ file.data.last_sent = IsoDate(d)
    /\ (pc = "failed" /\ sends # << >>) => \E i \in 1..Len(sends) : ~SendOk(sends[i])

\* C12: load_history fails open: a run that finds the history file absent,
\* or present but not a JSON document, goes on with the empty history and is
\* never ended by the load.
C12_LoadFailsOpen ==
    /\ pc # "aborted"
    /\ (pc = "loaded" /\ file0.kind \in {"absent", "corrupt"}) =>
          (loaded = EmptyHistory /\ history = EmptyHistory)


\* C13: every chunk the splitting loop produces is non-empty, so that each
\* iteration shortens what remains and the loop ends, also when what
\* remains starts with a newline and has no other newline among its first
\* MAX_LENGTH characters.
C13_ChunksNonEmpty ==
    pc \in {"chunking", "sending"} =>
        /\ \A i \in 1..Len(parts) : parts[i].len > 0
        /\ TotalLen(parts) + message.len = original.len
        /\ (parts # << >> /\ pc = "chunking") => message.len < original.len


\* C14: whatever runs came before (skipped, failed, sent or cut short), no
\* two records of the history file carry the same date, and neither do two
\* records of the history a run holds in memory.
C14_OneRecordADay ==
    /\ \A i, j \in 1..Len(file.data.recipes) :
           i # j => file.data.recipes[i].date # file.data.recipes[j].date
    /\ \A i, j \in 1..Len(history.recipes) :
           i # j => history.recipes[i].date # history.recipes[j].date

C14_Witness ==
    /\ pc = "sent"
    /\ runs = 2
    /\ file.kind = "valid"
    /\ Len(file.data.recipes) = 2
    /\ Len(file0.data.recipes) = 1
    /\ StrGreater(file.data.recipes[2].date, file.data.recipes[1].date)


\* C15: in the history file, whenever it holds a history, last_sent is
\* present and is the date of the last record; the same is true of the
\* history in memory from the moment the record of today is appended.
C15_LastSentIsLastRecord ==
    /\ file.kind = "valid" =>
          /\ file.data.recipes # << >>
          /\ file.data.last_sent = file.data.recipes[Len(file.data.recipes)].date
    /\ file.kind # "valid" => file.data.last_sent = None
    /\ pc \in {"save", "dump", "sent"} =>
          /\ history.recipes # << >>
          /\ history.last_sent = history.recipes[Len(history.recipes)].date


\* C16 as stated: of a message split into two or more chunks the first chunk
\* is sent without a part marker, every later chunk i with the marker
\* [i/N], and no chunk with the HTML parse mode.
C16_FirstChunkUnmarked ==
    Len(parts) >= 2 =>
        \A k \in 1..Len(sends) :
            /\ sends[k].part = 1 => sends[k].marker = << >>
            /\ sends[k].part > 1 => sends[k].marker = <<sends[k].part, Len(parts)>>
            /\ ~sends[k].html

\* C16 amended: of a message split into two or more chunks every chunk i,
\* the first one too, is sent with the marker [i/N], and no chunk with the
\* HTML parse mode; a message sent whole has no marker and the parse mode.
C16_EveryChunkMarked ==
    /\ Len(parts) >= 2 =>
          \A k \in 1..Len(sends) :
              /\ sends[k].marker = <<sends[k].part, Len(parts)>>
              /\ ~sends[k].html
    /\ parts = << >> =>
          \A k \in 1..Len(sends) : sends[k].marker = << >> /\ sends[k].html

C16_Witness ==
    /\ pc = "decide"
    /\ Len(parts) = 3
    /\ Len(sends) = 3
    /\ sends[1].marker = <<1, 3>>
    /\ sends[3].marker = <<3, 3>>
    /\ ~sends[1].html


\* C17: the chunks of a split message are sent in their order, one send a
\* chunk: the k-th send is the send of chunk k whatever the sends before it
\* answered, each send has returned or raised before the next one is made,
\* and the function returns when chunk N has been sent.
C17_SendsInChunkOrder ==
    parts # << >> =>
        /\ Len(sends) <= Len(parts)
        /\ \A k \in 1..Len(sends) :
              /\ sends[k].part = k
              /\ sends[k].outcome \in SendOutcomes
        /\ pc = "sending" => si = Len(sends) + 1
        /\ pc \in {"decide", "record", "save", "dump", "sent", "failed"}
              => Len(sends) = Len(parts)

C17_Witness ==
    /\ pc = "decide"
    /\ Len(parts) = 3
    /\ Len(sends) = 3
    /\ sends[1].outcome.kind = "exception"
    /\ sends[2].outcome = [kind |-> "dict", ok |-> FALSE]
    /\ sends[3].part = 3


RequestsTo(c) == {i \in 1..Len(reqs) : reqs[i].cand = c}

SoftFailed(r) == ~r.ok /\ ~r.quota

\* C18: a candidate gets its bare name tried first and, only after a failure
\* that is not a 429, its "models/" name once; so no candidate gets more
\* than two requests and a run makes at most two requests a candidate, and
\* generate_meal_plan gives up (the loop is past the last candidate and the
\* raise of line 150 is next) only with every candidate tried and every
\* request failed.
C18_BoundedRetries ==
    pc \in {"generate", "compose"} =>
        /\ \A c \in 1..Len(candidates) : Cardinality(RequestsTo(c)) <= 2
        /\ Len(reqs) <= 2 * Len(candidates)
        /\ \A i \in 1..Len(reqs) :
              /\ reqs[i].cand \in 1..Len(candidates)
              /\ reqs[i].var = 1 => reqs[i].name = candidates[reqs[i].cand]
              /\ reqs[i].var # 1 =>
                    /\ reqs[i].var = 2
                    /\ reqs[i].name = <<"models/">> \o candidates[reqs[i].cand]
                    /\ reqs[i - 1].cand = reqs[i].cand
                    /\ reqs[i - 1].var = 1
                    /\ SoftFailed(reqs[i - 1])
              /\ (SoftFailed(reqs[i]) /\ reqs[i].var = 1 /\ i < Len(reqs)) =>
                    (reqs[i + 1].cand = reqs[i].cand /\ reqs[i + 1].var = 2)
        /\ (pc = "generate" /\ ci > Len(candidates)) =>
              /\ ci = Len(candidates) + 1
              /\ \A c \in 1..Len(candidates) : RequestsTo(c) # {}
              /\ \A i \in 1..Len(reqs) : ~reqs[i].ok

C18_Witness ==
    /\ pc = "generate"
    /\ ci = 3
    /\ Len(candidates) = 2
    /\ Len(reqs) = 4
    /\ reqs[1].name = <<"gemini-2.0-", "flash">>
    /\ reqs[2].name = <<"models/", "gemini-2.0-", "flash">>
    /\ reqs[3].cand = 2 /\ reqs[4].cand = 2
    /\ \A i \in 1..4 : SoftFailed(reqs[i])


\* C19: the history file is written back atomically: once a process has
\* ended, however it ended, the file is absent or holds a whole history (the
\* one from before the run or the new one), never an empty or cut-off text.
C19_FileNeverCutShort ==
    pc = "idle" => file.kind \in {"absent", "valid"}

====
